---- MODULE Spec2Model ----
(***************************************************************************)
(* Configuration manager of AHFTE (configconfig_manager.py): the three     *)
(* dataclass sections, their validate() methods, and ConfigManager's       *)
(* __init__ / _load_from_file / _validate_all / save.                      *)
(*                                                                         *)
(* Numbers: fractional fields are held in basis points (0.1 = 1000), so    *)
(* that the literal 1 of `0 < max_position_size <= 1` is One = 10000.      *)
(* initial_capital is held in currency units.                              *)
(***************************************************************************)
EXTENDS Integers, Sequences, FiniteSets, TLC

VARIABLES
    env,        \* process environment when the module was imported
    file,       \* what is stored at config_path
    pc,         \* position of the process
    trading,    \* ConfigManager.trading
    firebase,   \* ConfigManager.firebase
    api,        \* ConfigManager.api
    log,        \* records emitted through logging, oldest first
    raised,     \* exception that propagated out of the last call
    ret,        \* value returned by the last direct validate() call
    saved       \* the sections as they were when save() was last called

vars == <<env, file, pc, trading, firebase, api, log, raised, ret, saved>>

-----------------------------------------------------------------------------
(* Bounds of the model *)

\* a config file names at most this many entries (fields, or section shapes)
MaxEntries == 2

-----------------------------------------------------------------------------
(* Section schemas *)

One == 10000

TradingDefaults ==
    [ exchange_id            |-> "binance",
      trading_pair           |-> "BTC/USDT",
      timeframe              |-> "1m",
      initial_capital        |-> 10000,
      max_position_size      |-> 1000,
      max_daily_loss         |-> 200,
      stop_loss_pct          |-> 100,
      take_profit_pct        |-> 200,
      max_open_positions     |-> 3,
      lookback_period        |-> 100,
      prediction_horizon     |-> 5,
      model_update_frequency |-> 3600,
      order_timeout          |-> 30,
      max_slippage           |-> 10 ]

TradingFields == DOMAIN TradingDefaults

Unset == "<unset>"

EnvVars == { "FIREBASE_PROJECT_ID", "FIREBASE_CREDENTIALS_PATH",
             "FIREBASE_DATABASE_URL", "EXCHANGE_API_KEY",
             "EXCHANGE_API_SECRET", "TELEGRAM_BOT_TOKEN", "TELEGRAM_CHAT_ID" }

\* os.getenv(name, default)
GetEnv(e, name, default) == IF e[name] = Unset THEN default ELSE e[name]

FirebaseDefaults(e) ==
    [ project_id       |-> GetEnv(e, "FIREBASE_PROJECT_ID", ""),
      credentials_path |-> GetEnv(e, "FIREBASE_CREDENTIALS_PATH", ""),
      database_url     |-> GetEnv(e, "FIREBASE_DATABASE_URL", "") ]

FirebaseFields == { "project_id", "credentials_path", "database_url" }

APIDefaults(e) ==
    [ exchange_api_key    |-> GetEnv(e, "EXCHANGE_API_KEY", ""),
      exchange_api_secret |-> GetEnv(e, "EXCHANGE_API_SECRET", ""),
      telegram_bot_token  |-> GetEnv(e, "TELEGRAM_BOT_TOKEN", ""),
      telegram_chat_id    |-> GetEnv(e, "TELEGRAM_CHAT_ID", "") ]

APIFields == { "exchange_api_key", "exchange_api_secret",
               "telegram_bot_token", "telegram_chat_id" }

-----------------------------------------------------------------------------
(* validate() of the three sections: the value returned, or the message of *)
(* the ValueError raised.                                                  *)

ReturnedTrue == "True"

ErrCapital  == "Initial capital must be positive"
ErrPosition == "Max position size must be between 0 and 1"
ErrStopLoss == "Stop loss must be positive"

\* faulty variant: the stop-loss check left out
TradingValidateNoStopLoss(t) ==
    IF t.initial_capital <= 0 THEN ErrCapital
    ELSE IF ~(0 < t.max_position_size /\ t.max_position_size <= One) THEN ErrPosition
    ELSE ReturnedTrue

\* faulty variant: the upper end of the position range excluded
TradingValidateStrictUpper(t) ==
    IF t.initial_capital <= 0 THEN ErrCapital
    ELSE IF ~(0 < t.max_position_size /\ t.max_position_size < One) THEN ErrPosition
    ELSE IF t.stop_loss_pct <= 0 THEN ErrStopLoss
    ELSE ReturnedTrue

TradingValidate(t) ==
    IF t.initial_capital <= 0 THEN ErrCapital
    ELSE IF ~(0 < t.max_position_size /\ t.max_position_size <= One) THEN ErrPosition
    ELSE IF t.stop_loss_pct <= 0 THEN ErrStopLoss
    ELSE ReturnedTrue

\* faulty variant: the required fields checked in the opposite order
RequiredReversed == << "database_url", "credentials_path", "project_id" >>

Required == << "project_id", "credentials_path", "database_url" >>

ErrRequired(field) ==
    CASE field = "project_id"       -> "Firebase project_id is required"
      [] field = "credentials_path" -> "Firebase credentials_path is required"
      [] field = "database_url"     -> "Firebase database_url is required"

\* the for loop of FirebaseConfig.validate, from index i of `required`
RECURSIVE FirebaseValidateFrom(_, _)
FirebaseValidateFrom(f, i) ==
    IF i > Len(Required) THEN ReturnedTrue
    ELSE IF f[Required[i]] = "" THEN ErrRequired(Required[i])
    ELSE FirebaseValidateFrom(f, i + 1)

FirebaseValidate(f) == FirebaseValidateFrom(f, 1)

WarnCredentials == "WARNING Exchange API credentials not configured"

\* the records APIConfig.validate logs; it always returns True
APIValidateLog(a) ==
    IF a.exchange_api_key = "" \/ a.exchange_api_secret = ""
    THEN << WarnCredentials >> ELSE << >>

\* faulty variant: missing exchange credentials rejected instead of warned about
APIValidateStrict(a) ==
    IF a.exchange_api_key = "" \/ a.exchange_api_secret = ""
    THEN "Exchange API credentials not configured" ELSE ReturnedTrue

APIValidate(a) == ReturnedTrue

-----------------------------------------------------------------------------
(* The file at config_path.  A file is absent, unreadable (it exists but   *)
(* open() fails), not JSON, JSON that is no object, or a JSON object `top` *)
(* mapping each top-level key to its value; a value is an object (obj,     *)
(* with its members kv) or anything else (obj = FALSE).                    *)

NoFields == [f \in {} |-> 0]

NoTop == [k \in {} |-> 0]

EmptyObject == [obj |-> TRUE, kv |-> NoFields]

NotObject == "<not an object>"

NoMembers == "<no members>"

\* what a file may say about the trading section: <<key, member, value>>
TradingEntries ==
    { <<"trading", "initial_capital", 0>>,
      <<"trading", "initial_capital", 5000>>,
      <<"trading", "max_position_size", One>>,
      <<"trading", "max_position_size", 15000>>,
      <<"trading", "stop_loss_pct", 0>>,
      <<"trading", "stop_loss_pct", 50>>,
      <<"trading", "max_daily_loss", -200>>,
      <<"trading", "take_profit_pct", 0>>,
      <<"trading", "max_slippage", -10>>,
      <<"trading", "exchange_id", "kraken">>,
      <<"trading", "trading_pair", "ETH/USDT">>,
      <<"trading", "timeframe", "5m">>,
      <<"trading", "max_open_positions", 5>>,
      <<"trading", "lookback_period", 50>>,
      <<"trading", "prediction_horizon", 10>>,
      <<"trading", "model_update_frequency", 60>>,
      <<"trading", "order_timeout", 10>>,
      <<"trading", "leverage", 5>>,
      <<"trading", NoMembers, 0>>,
      <<"trading", NotObject, 0>> }

FirebaseEntries ==
    { <<"firebase", "project_id", "">>,
      <<"firebase", "project_id", "file-project">>,
      <<"firebase", "credentials_path", "file-creds.json">>,
      <<"firebase", "database_url", "">>,
      <<"firebase", "database_url", "https://file.example">>,
      <<"firebase", "region", "eu">>,
      <<"firebase", NotObject, 0>> }

BackendEntries ==
    { <<"backend", "project_id", "backend-project">>,
      <<"backend", "database_url", "https://backend.example">> }

APIEntries ==
    { <<"api", "exchange_api_key", "">>,
      <<"api", "exchange_api_key", "file-key">>,
      <<"api", "exchange_api_secret", "file-secret">>,
      <<"api", "telegram_bot_token", "file-token">>,
      <<"api", "telegram_chat_id", "file-chat">>,
      <<"api", "passphrase", "p">>,
      <<"api", NotObject, 0>> }

OtherEntries == { <<"logging", "level", "debug">> }

Entries ==
    TradingEntries \cup FirebaseEntries \cup BackendEntries \cup APIEntries
        \cup OtherEntries

\* an object names a member once, and a value that is no object has no members
WellFormed(es) ==
    \A a, b \in es :
        (a[1] = b[1] /\ (a[2] = b[2] \/ a[2] = NotObject)) => a = b

RECURSIVE EntrySetsUpTo(_)
EntrySetsUpTo(n) ==
    IF n = 0 THEN { {} }
    ELSE LET prev == EntrySetsUpTo(n - 1)
         IN  prev \cup { s \cup {e} : s \in prev, e \in Entries }

FileEntrySets == { es \in EntrySetsUpTo(MaxEntries) : WellFormed(es) }

ValueOf(es, key) ==
    LET mine == { e \in es : e[1] = key }
        names == { e[2] : e \in mine } \ { NotObject, NoMembers }
    IN  [ obj |-> \A e \in mine : e[2] # NotObject,
          kv  |-> [ f \in names |-> (CHOOSE e \in mine : e[2] = f)[3] ] ]

ObjectFile(es) ==
    [ kind |-> "object",
      top  |-> [ k \in { e[1] : e \in es } |-> ValueOf(es, k) ] ]

OtherFile(kind) == [ kind |-> kind, top |-> NoTop ]

FileKinds == { "absent", "unreadable", "invalid", "nonobject" }

\* the environments considered: the API variables are set together, and so
\* are the two Firebase location variables
Envs ==
    { e \in [EnvVars -> {Unset, "from-env"}] :
        /\ e["FIREBASE_CREDENTIALS_PATH"] = e["FIREBASE_DATABASE_URL"]
        /\ e["EXCHANGE_API_KEY"] = e["EXCHANGE_API_SECRET"]
        /\ e["EXCHANGE_API_KEY"] = e["TELEGRAM_BOT_TOKEN"]
        /\ e["EXCHANGE_API_KEY"] = e["TELEGRAM_CHAT_ID"] }

-----------------------------------------------------------------------------
(* ConfigManager *)

\* faulty variant: names that are no field are dropped instead of rejected
ConstructRaisesLenient(defaults, value) == ~value.obj

\* Cls(**kwargs) of a dataclass raises TypeError when kwargs is no mapping or
\* names something that is no field
ConstructRaises(defaults, value) ==
    \/ ~value.obj
    \/ ~(DOMAIN value.kv \subseteq DOMAIN defaults)

\* faulty variant: the keyword arguments are not passed on
ConstructIgnoringFile(defaults, value) == defaults

\* Cls(**kwargs): the named fields from kwargs, the others from the class defaults
Construct(defaults, value) ==
    [ f \in DOMAIN defaults |->
        IF f \in DOMAIN value.kv THEN value.kv[f] ELSE defaults[f] ]

\* data.get(key, {})
DataGet(top, key) == IF key \in DOMAIN top THEN top[key] ELSE EmptyObject

TradingKey == "trading"

\* faulty variant: the second section read under the other name
FirebaseKeyBackend == "backend"

FirebaseKey == "firebase"

APIKey == "api"

\* _load_from_file: the sections and how the try block ended
LoadFromFileResult(fl, e, cur) ==
    IF fl.kind = "absent" THEN [cur EXCEPT !.outcome = "skipped"]
    ELSE IF fl.kind # "object" THEN [cur EXCEPT !.outcome = "failed"]
    ELSE
        LET t == DataGet(fl.top, TradingKey)
            f == DataGet(fl.top, FirebaseKey)
            a == DataGet(fl.top, APIKey)
        IN  IF ConstructRaises(TradingDefaults, t)
            THEN [cur EXCEPT !.outcome = "failed"]
            ELSE IF ConstructRaises(FirebaseDefaults(e), f)
            THEN [cur EXCEPT !.trading = Construct(TradingDefaults, t),
                             !.outcome = "failed"]
            ELSE IF ConstructRaises(APIDefaults(e), a)
            THEN [cur EXCEPT !.trading = Construct(TradingDefaults, t),
                             !.firebase = Construct(FirebaseDefaults(e), f),
                             !.outcome = "failed"]
            ELSE [ trading  |-> Construct(TradingDefaults, t),
                   firebase |-> Construct(FirebaseDefaults(e), f),
                   api      |-> Construct(APIDefaults(e), a),
                   outcome  |-> "loaded" ]

InfoLoaded == "INFO Configuration loaded"

WarnLoad == "WARNING Failed to load config file"

LoadLog(outcome) ==
    CASE outcome = "loaded"  -> << InfoLoaded >>
      [] outcome = "failed"  -> << WarnLoad >>
      [] outcome = "skipped" -> << >>

InfoValidated == "INFO All configurations validated successfully"

ErrorValidation == "ERROR Configuration validation failed"

NoException == "<no exception>"

\* faulty variant: the backend section validated before the trading section
ValidateAllFirebaseFirst(t, f, a) ==
    IF FirebaseValidate(f) # ReturnedTrue
    THEN [ log |-> << ErrorValidation >>, raised |-> FirebaseValidate(f) ]
    ELSE IF TradingValidate(t) # ReturnedTrue
    THEN [ log |-> << ErrorValidation >>, raised |-> TradingValidate(t) ]
    ELSE [ log |-> APIValidateLog(a) \o << InfoValidated >>,
           raised |-> NoException ]

\* _validate_all: what it logs and what it raises
ValidateAllResult(t, f, a) ==
    IF TradingValidate(t) # ReturnedTrue
    THEN [ log |-> << ErrorValidation >>, raised |-> TradingValidate(t) ]
    ELSE IF FirebaseValidate(f) # ReturnedTrue
    THEN [ log |-> << ErrorValidation >>, raised |-> FirebaseValidate(f) ]
    ELSE IF APIValidate(a) # ReturnedTrue
    THEN [ log |-> APIValidateLog(a) \o << ErrorValidation >>,
           raised |-> APIValidate(a) ]
    ELSE [ log |-> APIValidateLog(a) \o << InfoValidated >>,
           raised |-> NoException ]

NotSaved ==
    [ called |-> FALSE, trading |-> NoFields, firebase |-> NoFields,
      api |-> NoFields ]

Init ==
    /\ env \in Envs
    /\ \/ \E k \in FileKinds : file = OtherFile(k)
       \/ \E es \in FileEntrySets : file = ObjectFile(es)
    /\ pc = "start"
    /\ trading = NoFields
    /\ firebase = NoFields
    /\ api = NoFields
    /\ log = << >>
    /\ raised = NoException
    /\ ret = "<none>"
    /\ saved = NotSaved

\* __init__, lines 86-89: the three sections from the class defaults
Construction ==
    /\ pc = "start"
    /\ trading' = TradingDefaults
    /\ firebase' = FirebaseDefaults(env)
    /\ api' = APIDefaults(env)
    /\ pc' = "load"
    /\ UNCHANGED <<env, file, log, raised, ret, saved>>

\* __init__, line 90
LoadFromFile ==
    /\ pc = "load"
    /\ LET r == LoadFromFileResult(file, env,
                   [ trading |-> trading, firebase |-> firebase, api |-> api,
                     outcome |-> "" ])
       IN  /\ trading' = r.trading
           /\ firebase' = r.firebase
           /\ api' = r.api
           /\ log' = log \o LoadLog(r.outcome)
    /\ pc' = "validate"
    /\ UNCHANGED <<env, file, raised, ret, saved>>

\* __init__, line 91
ValidateAll ==
    /\ pc = "validate"
    /\ LET r == ValidateAllResult(trading, firebase, api)
       IN  /\ log' = log \o r.log
           /\ raised' = r.raised
           /\ pc' = IF r.raised = NoException THEN "ready" ELSE "failed"
    /\ UNCHANGED <<env, file, trading, firebase, api, ret, saved>>

\* faulty variant: the second section written under the other name
SaveDataBackendKey(t, f, a) ==
    [ k \in { TradingKey, "backend", APIKey } |->
        CASE k = TradingKey -> [ obj |-> TRUE, kv |-> t ]
          [] k = "backend"  -> [ obj |-> TRUE, kv |-> f ]
          [] k = APIKey     -> [ obj |-> TRUE, kv |-> a ] ]

\* save(), lines 121-124: the document that is written
SaveData(t, f, a) ==
    [ k \in { TradingKey, "firebase", APIKey } |->
        CASE k = TradingKey -> [ obj |-> TRUE, kv |-> t ]
          [] k = "firebase" -> [ obj |-> TRUE, kv |-> f ]
          [] k = APIKey     -> [ obj |-> TRUE, kv |-> a ] ]

\* save(): the file afterwards; the write may fail (mkdir or open raises)
WriteFile(fl, data, written) ==
    IF written THEN [ kind |-> "object", top |-> data ] ELSE fl

Save ==
    /\ pc = "ready"
    /\ \E written \in BOOLEAN :
           file' = WriteFile(file, SaveData(trading, firebase, api), written)
    /\ saved' = [ called |-> TRUE, trading |-> trading, firebase |-> firebase,
                  api |-> api ]
    /\ pc' = "saved"
    /\ UNCHANGED <<env, trading, firebase, api, log, raised, ret>>

\* the process ends and a new one starts with the same environment and path
Restart ==
    /\ pc \in { "ready", "saved", "failed" }
    /\ pc' = "start"
    /\ trading' = NoFields
    /\ firebase' = NoFields
    /\ api' = NoFields
    /\ log' = << >>
    /\ raised' = NoException
    /\ UNCHANGED <<env, file, ret, saved>>

Next ==
    \/ Construction
    \/ LoadFromFile
    \/ ValidateAll
    \/ Save
    \/ Restart

Spec == Init /\ [][Next]_vars

-----------------------------------------------------------------------------
(* Direct calls of the validate() methods on records built by a caller.   *)

CapitalInputs == { -1, 0, 1, 10000 }

PositionInputs == { -1, 0, 1, 1000, One - 1, One, One + 1, 15000 }

StopLossInputs == { -1, 0, 1, 100 }

OtherFractionInputs == { -1, 0, 200 }

TradingInputs ==
    { [TradingDefaults EXCEPT !.initial_capital = c, !.max_position_size = p,
                              !.stop_loss_pct = s, !.max_daily_loss = d,
                              !.take_profit_pct = g, !.max_slippage = m] :
        c \in CapitalInputs, p \in PositionInputs, s \in StopLossInputs,
        d \in OtherFractionInputs, g \in OtherFractionInputs,
        m \in OtherFractionInputs }

FirebaseInputs == [ FirebaseFields -> { "", "x" } ]

APIInputs ==
    { [ exchange_api_key |-> k, exchange_api_secret |-> x,
        telegram_bot_token |-> "", telegram_chat_id |-> "" ] :
        k \in { "", "key" }, x \in { "", "secret" } }

NoEnv == [ v \in EnvVars |-> Unset ]

InitValidate ==
    /\ env = NoEnv
    /\ file = OtherFile("absent")
    /\ \/ /\ pc = "call trading"
          /\ trading \in TradingInputs
          /\ firebase = NoFields
          /\ api = NoFields
       \/ /\ pc = "call firebase"
          /\ trading = NoFields
          /\ firebase \in FirebaseInputs
          /\ api = NoFields
       \/ /\ pc = "call api"
          /\ trading = NoFields
          /\ firebase = NoFields
          /\ api \in APIInputs
    /\ log = << >>
    /\ raised = NoException
    /\ ret = "<none>"
    /\ saved = NotSaved

\* what a call that computed `result` leaves behind
Outcome(result) ==
    /\ ret' = IF result = ReturnedTrue THEN ReturnedTrue ELSE "<none>"
    /\ raised' = IF result = ReturnedTrue THEN NoException ELSE result

CallTradingValidate ==
    /\ pc = "call trading"
    /\ Outcome(TradingValidate(trading))
    /\ pc' = "trading done"
    /\ UNCHANGED <<env, file, trading, firebase, api, log, saved>>

CallFirebaseValidate ==
    /\ pc = "call firebase"
    /\ Outcome(FirebaseValidate(firebase))
    /\ pc' = "firebase done"
    /\ UNCHANGED <<env, file, trading, firebase, api, log, saved>>

CallAPIValidate ==
    /\ pc = "call api"
    /\ Outcome(APIValidate(api))
    /\ log' = log \o APIValidateLog(api)
    /\ pc' = "api done"
    /\ UNCHANGED <<env, file, trading, firebase, api, saved>>

NextValidate ==
    \/ CallTradingValidate
    \/ CallFirebaseValidate
    \/ CallAPIValidate

SpecValidate == InitValidate /\ [][NextValidate]_vars

-----------------------------------------------------------------------------
(* Vocabulary of the properties *)

Sections ==
    [ trading |-> trading, firebase |-> firebase, api |-> api, outcome |-> "" ]

\* the step in which _load_from_file runs
LoadStep == pc = "load" /\ pc' = "validate"

LoadFailed == log' = log \o << WarnLoad >>

SectionsUnchanged ==
    trading' = trading /\ firebase' = firebase /\ api' = api

SectionsBecome(r) ==
    trading' = r.trading /\ firebase' = r.firebase /\ api' = r.api

Range(q) == { q[i] : i \in DOMAIN q }

FieldsOf(key) ==
    CASE key = "trading"  -> TradingFields
      [] key = "firebase" -> FirebaseFields
      [] key = "backend"  -> FirebaseFields
      [] key = "api"      -> APIFields

Present(fl, key) == fl.kind = "object" /\ key \in DOMAIN fl.top

Named(fl, key, f) == Present(fl, key) /\ f \in DOMAIN fl.top[key].kv

\* the section object under `key` names something that is no field of it
UnknownMember(fl, key) ==
    /\ Present(fl, key)
    /\ fl.top[key].obj
    /\ ~(DOMAIN fl.top[key].kv \subseteq FieldsOf(key))

\* the file exists and is unreadable, not JSON, or a JSON object one of whose
\* three sections is an object naming a member that is no field
MalformedFile(fl) ==
    \/ fl.kind \in { "unreadable", "invalid" }
    \/ /\ fl.kind = "object"
       /\ \A k \in DOMAIN fl.top : fl.top[k].obj
       /\ \E k \in { "trading", "firebase", "api" } : UnknownMember(fl, k)

\* the file without the top-level keys outside `keep`
WithTopKeys(fl, keep) ==
    [ fl EXCEPT !.top = [ k \in DOMAIN fl.top \cap keep |-> fl.top[k] ] ]

\* the file without the members of its sections that are no fields
WithKnownMembers(fl) ==
    [ fl EXCEPT !.top =
        [ k \in DOMAIN fl.top |->
            [ obj |-> fl.top[k].obj,
              kv  |-> [ f \in DOMAIN fl.top[k].kv \cap FieldsOf(k) |->
                          fl.top[k].kv[f] ] ] ] ]

FileSectionKeys == { "trading", "firebase", "backend", "api" }

LoaderKeys == { "trading", "firebase", "api" }

HasUnknownKey(fl) ==
    /\ fl.kind = "object"
    /\ \A k \in DOMAIN fl.top : fl.top[k].obj
    /\ \/ ~(DOMAIN fl.top \subseteq FileSectionKeys)
       \/ \E k \in DOMAIN fl.top \cap FileSectionKeys : UnknownMember(fl, k)

\* the file with its `backend` member renamed to `firebase`
BackendAsFirebase(fl) ==
    [ fl EXCEPT !.top =
        [ k \in (DOMAIN fl.top \ { "backend" }) \cup { "firebase" } |->
            IF k = "firebase" THEN fl.top["backend"] ELSE fl.top[k] ] ]

ValidOverrideFile(fl) ==
    /\ fl.kind = "object"
    /\ \A k \in DOMAIN fl.top \cap LoaderKeys :
           fl.top[k].obj /\ DOMAIN fl.top[k].kv \subseteq FieldsOf(k)

\* `after` is `before` with exactly the members the file names under `key` replaced
Overlaid(fl, key, before, after) ==
    /\ DOMAIN after = DOMAIN before
    /\ \A f \in DOMAIN before :
           after[f] = IF Named(fl, key, f) THEN fl.top[key].kv[f] ELSE before[f]

TradingRuleHolds(t) ==
    /\ t.initial_capital > 0
    /\ 0 < t.max_position_size /\ t.max_position_size <= One
    /\ t.stop_loss_pct > 0

BackendComplete(f) ==
    f.project_id # "" /\ f.credentials_path # "" /\ f.database_url # ""

TradingErrors == { ErrCapital, ErrPosition, ErrStopLoss }

ValidationRecords == { ErrorValidation, InfoValidated, WarnCredentials }

-----------------------------------------------------------------------------
(* Properties *)

\* C1 (as claimed): when the file is unreadable, is not JSON, or has a section
\* object (any of the three) naming a member that is no field, the load step
\* fails without raising and all three sections keep their pre-load values.
C1_LoadAllOrNothing ==
    [][ (LoadStep /\ MalformedFile(file))
            => (LoadFailed /\ SectionsUnchanged /\ raised' = NoException) ]_vars

\* C2 (as claimed): loading a JSON object that has an unknown top-level key
\* or an unknown member in a section gives the same sections as loading the
\* file with the unknown keys removed.
C2_UnknownKeysIgnored ==
    [][ (LoadStep /\ HasUnknownKey(file))
            => SectionsBecome(LoadFromFileResult(
                   WithKnownMembers(WithTopKeys(file, FileSectionKeys)),
                   env, Sections)) ]_vars

\* C2 (amended): top-level keys the loader does not read are ignored (the
\* load gives the same sections as for the file without them), but a section
\* object naming a member that is no field makes the load fail there: that
\* section and every section after it (trading, firebase, api) keep their
\* pre-load values.
C2_UnknownTopLevelIgnoredMemberRejected ==
    [][ (LoadStep /\ file.kind = "object")
            => /\ SectionsBecome(LoadFromFileResult(
                      WithTopKeys(file, LoaderKeys), env, Sections))
               /\ UnknownMember(file, "trading") => (SectionsUnchanged /\ LoadFailed)
               /\ UnknownMember(file, "firebase")
                      => (firebase' = firebase /\ api' = api /\ LoadFailed)
               /\ UnknownMember(file, "api") => (api' = api /\ LoadFailed) ]_vars

\* C2 witness: a file with an unknown top-level key and a trading override
\* has been loaded, and the override is applied.
C2_Witness ==
    /\ pc = "validate"
    /\ Present(file, "logging")
    /\ Named(file, "trading", "initial_capital")
    /\ trading.initial_capital = file.top["trading"].kv["initial_capital"]
    /\ trading.initial_capital # TradingDefaults.initial_capital
    /\ log = << InfoLoaded >>

\* C3: after loading a valid override file every field the file names has the
\* file's value and every other field of every section has its pre-load value.
C3_PerFieldOverride ==
    [][ (LoadStep /\ ValidOverrideFile(file))
            => /\ Overlaid(file, "trading", trading, trading')
               /\ Overlaid(file, "firebase", firebase, firebase')
               /\ Overlaid(file, "api", api, api') ]_vars

\* C3 witness: a file naming one trading field and one api field, and no
\* firebase section, has been loaded.
C3_Witness ==
    /\ pc = "validate"
    /\ ValidOverrideFile(file)
    /\ Named(file, "trading", "initial_capital")
    /\ Named(file, "api", "exchange_api_key")
    /\ ~Present(file, "firebase")
    /\ trading.initial_capital = 5000
    /\ trading.max_position_size = TradingDefaults.max_position_size
    /\ api.exchange_api_key = "file-key"
    /\ api.exchange_api_secret = "from-env"
    /\ firebase.project_id = "from-env"

\* C4: nothing before the validator raises; construction fails exactly when
\* the trading rule is violated or a backend field is empty, whatever the file
\* and the API credentials are; a constructed manager holds valid sections.
C4_ConstructionFailsOnlyByValidation ==
    /\ pc \in { "load", "validate" } => raised = NoException
    /\ pc = "failed"
           => /\ raised # NoException
              /\ ~(TradingRuleHolds(trading) /\ BackendComplete(firebase))
    /\ pc \in { "ready", "saved" }
           => /\ raised = NoException
              /\ TradingRuleHolds(trading)
              /\ BackendComplete(firebase)

\* C4 witness: construction succeeded although the file is not JSON and no
\* exchange credentials are configured.
C4_Witness ==
    /\ pc = "ready"
    /\ file.kind = "invalid"
    /\ api.exchange_api_key = ""
    /\ WarnLoad \in Range(log)
    /\ WarnCredentials \in Range(log)

\* C5: no validation happens before the load step has finished; when the
\* trading section is invalid the error raised is a trading error even if the
\* backend section is invalid too; and once a section's validation raised, no
\* later section is validated (no API warning, no success record).
C5_ValidationOrder ==
    /\ pc \in { "start", "load", "validate" }
           => /\ raised = NoException
              /\ Range(log) \cap ValidationRecords = {}
    /\ pc = "failed"
           => /\ ~TradingRuleHolds(trading) => raised \in TradingErrors
              /\ TradingRuleHolds(trading) => raised = FirebaseValidate(firebase)
              /\ WarnCredentials \notin Range(log)
              /\ InfoValidated \notin Range(log)
              /\ log[Len(log)] = ErrorValidation

\* C5 witness: construction failed with the trading and the backend section
\* both invalid and the exchange credentials missing.
C5_Witness ==
    /\ pc = "failed"
    /\ ~TradingRuleHolds(trading)
    /\ ~BackendComplete(firebase)
    /\ api.exchange_api_key = ""
    /\ raised \in TradingErrors

\* C6: a manager constructed from the same path after save(), with the
\* environment unchanged, is constructed successfully and holds the sections
\* that were saved, however often this is repeated.
C6_SaveReloadRoundTrip ==
    (saved.called /\ pc \in { "ready", "failed" })
        => /\ pc = "ready"
           /\ trading = saved.trading
           /\ firebase = saved.firebase
           /\ api = saved.api

\* C6 witness: a manager whose trading and backend values came from a file
\* overlay was saved, the file was written, and a fresh manager was constructed.
C6_Witness ==
    /\ pc = "ready"
    /\ saved.called
    /\ file.kind = "object"
    /\ DOMAIN file.top = LoaderKeys
    /\ DOMAIN file.top["trading"].kv = TradingFields
    /\ trading.initial_capital = 5000
    /\ firebase.project_id = "file-project"
    /\ FirebaseDefaults(env).project_id = "from-env"

\* C7 (as claimed): overrides given under `backend` are overlaid exactly as
\* the same overrides given under `firebase`.
C7_BackendKeyAccepted ==
    [][ (LoadStep /\ Present(file, "backend") /\ ~Present(file, "firebase"))
            => SectionsBecome(LoadFromFileResult(
                   BackendAsFirebase(file), env, Sections)) ]_vars

\* C7 (amended): the loader reads the second section under `firebase` only; a
\* `backend` key without a `firebase` key leaves the backend section at its
\* pre-load values, and save() writes the section under `firebase`.
C7_OnlyFirebaseKeyRead ==
    [][ /\ (LoadStep /\ Present(file, "backend") /\ ~Present(file, "firebase"))
            => firebase' = firebase
        /\ (pc = "ready" /\ pc' = "saved" /\ file' # file)
            => (Present(file', "firebase") /\ ~Present(file', "backend")) ]_vars

\* C7 witness: a file giving project_id under `backend` has been loaded
\* without failure and the backend section does not hold that value.
C7_Witness ==
    /\ pc = "validate"
    /\ Named(file, "backend", "project_id")
    /\ ~Present(file, "firebase")
    /\ log = << InfoLoaded >>
    /\ firebase.project_id # file.top["backend"].kv["project_id"]

\* C8 (as claimed): a TradingConfig that passes validation has all five
\* fractional risk parameters positive and max_position_size in (0, 1].
C8_AllFractionsPositive ==
    (pc = "trading done" /\ ret = ReturnedTrue)
        => /\ 0 < trading.max_position_size /\ trading.max_position_size <= One
           /\ trading.max_daily_loss > 0
           /\ trading.stop_loss_pct > 0
           /\ trading.take_profit_pct > 0
           /\ trading.max_slippage > 0

\* C8 (amended): a TradingConfig that passes validation has stop_loss_pct
\* positive and max_position_size in (0, 1] (and initial_capital positive);
\* max_daily_loss, take_profit_pct and max_slippage are not constrained.
C8_CheckedFractionsPositive ==
    (pc = "trading done" /\ ret = ReturnedTrue)
        => /\ 0 < trading.max_position_size /\ trading.max_position_size <= One
           /\ trading.stop_loss_pct > 0
           /\ trading.initial_capital > 0

\* C8 witness: validation passed a record whose three unchecked fractions
\* are not positive.
C8_Witness ==
    /\ pc = "trading done"
    /\ ret = ReturnedTrue
    /\ trading.max_daily_loss <= 0
    /\ trading.take_profit_pct <= 0
    /\ trading.max_slippage <= 0

\* C9: TradingConfig.validate raises iff initial_capital <= 0 or
\* max_position_size is outside (0, 1] or stop_loss_pct <= 0, returns True
\* otherwise, and changes no field of the record.
C9_TradingValidateExact ==
    [][ pc = "call trading"
            => LET bad == \/ trading.initial_capital <= 0
                          \/ ~(0 < trading.max_position_size
                                 /\ trading.max_position_size <= One)
                          \/ trading.stop_loss_pct <= 0
               IN  /\ (raised' # NoException) <=> bad
                   /\ (ret' = ReturnedTrue) <=> ~bad
                   /\ trading' = trading ]_vars

\* C9 witness: the boundary record max_position_size = 1, initial_capital = 1,
\* stop_loss_pct = 0.01 was validated and accepted.
C9_Witness ==
    /\ pc = "trading done"
    /\ trading.max_position_size = One
    /\ trading.initial_capital = 1
    /\ trading.stop_loss_pct = 100
    /\ ret = ReturnedTrue
    /\ raised = NoException

\* C10: FirebaseConfig.validate raises iff one of project_id,
\* credentials_path, database_url is empty, the error names the first empty
\* one in that order, and it returns True when none is empty.
C10_FirebaseValidateFirstMissing ==
    pc = "firebase done"
        => /\ (raised # NoException) <=> ~BackendComplete(firebase)
           /\ BackendComplete(firebase) => ret = ReturnedTrue
           /\ firebase.project_id = ""
                  => raised = "Firebase project_id is required"
           /\ (firebase.project_id # "" /\ firebase.credentials_path = "")
                  => raised = "Firebase credentials_path is required"
           /\ (firebase.project_id # "" /\ firebase.credentials_path # ""
                 /\ firebase.database_url = "")
                  => raised = "Firebase database_url is required"

\* C10 witness: a record with project_id and database_url both empty was
\* validated and the error names project_id.
C10_Witness ==
    /\ pc = "firebase done"
    /\ firebase.project_id = ""
    /\ firebase.credentials_path # ""
    /\ firebase.database_url = ""
    /\ raised = "Firebase project_id is required"

=============================================================================
